---- MODULE Spec2Model ----
(* dbtemplates/admin.py: the module-level configuration resolution and the   *)
(* three bulk actions of TemplateAdmin, together with the admin add/change/  *)
(* delete views that run as concurrent requests on the Template table.       *)
EXTENDS Integers, Sequences, FiniteSets, TLC

VARIABLES
    settings,                 \* dbtemplates.conf.settings: the six boolean options
    line,                     \* position of the import of dbtemplates/admin.py
    TemplateModelAdmin,       \* module global, admin.py:16-22
    TemplateContentTextArea,  \* module global, admin.py:58-61 and 75-80
    content_help_text,        \* module global, admin.py:63-68
    TemplateAdminForm,        \* class object, admin.py:83-94 (NoClass until defined)
    TemplateAdmin,            \* class object, admin.py:97-169 (NoClass until defined)
    registry,                 \* admin.site._registry restricted to Template
    db,                       \* the Template table: a set of rows
    nextpk,                   \* the table's auto-increment primary key
    clock,                    \* the time of the last call of now()
    cache,                    \* the template cache, a set of template names
    pc,                       \* position of the bulk-action request
    action,                   \* the bulk action of the request
    queryset,                 \* the queryset handed to the action (evaluated:
                              \* its _result_cache is not None)
    i,                        \* number of completed iterations of the for loop
    errors,                   \* check_syntax's local list
    count,                    \* the local variable count
    calls,                    \* external functions called by the request, in order
    messages,                 \* messages reported by the request (message_user)
    exc,                      \* exception propagated out of the action
    matchingAtCount           \* rows the filter matched when the action took its count

loadVars == <<settings, line, TemplateModelAdmin, TemplateContentTextArea,
              content_help_text, TemplateAdminForm, TemplateAdmin, registry>>
tableVars == <<db, nextpk, clock>>
reqVars == <<pc, action, queryset, i, errors, count, calls, messages, exc,
             matchingAtCount>>
vars == <<loadVars, tableVars, cache, reqVars>>

None == "None"

\* a class name that is not bound yet
NoClass == [name |-> None]

\* matchingAtCount before the action took its count
NoCount == -1

-----------------------------------------------------------------------------
(* Configuration resolution: the module-level statements of admin.py.        *)

Options == {"USE_CODEMIRROR", "USE_TINYMCE", "USE_REDACTOR",
            "AUTO_POPULATE_CONTENT", "USE_REVERSION", "USE_REVERSION_COMPARE"}

AllSettings == [Options -> BOOLEAN]

AutoPopulateHelp ==
    "Leaving this empty causes Django to look for a template with the given name and populate this field with its content."

ResolveModelAdminSwapped(s) ==
    IF s["USE_REVERSION"] THEN "VersionAdmin"
    ELSE IF s["USE_REVERSION_COMPARE"] THEN "CompareVersionAdmin"
    ELSE "ModelAdmin"

\* admin.py:16-22
ResolveModelAdmin(s) ==
    IF s["USE_REVERSION_COMPARE"] THEN "CompareVersionAdmin"
    ELSE IF s["USE_REVERSION"] THEN "VersionAdmin"
    ELSE "ModelAdmin"

\* admin.py:58-61
ResolveCodeMirror(s) ==
    IF s["USE_CODEMIRROR"] THEN "CodeMirrorTextArea" ELSE "Textarea"

\* admin.py:63-68
ResolveHelpText(s) ==
    IF s["AUTO_POPULATE_CONTENT"] THEN AutoPopulateHelp ELSE ""

ConflictGuardAnyTwo(s) ==
    \/ s["USE_CODEMIRROR"] /\ s["USE_TINYMCE"]
    \/ s["USE_CODEMIRROR"] /\ s["USE_REDACTOR"]
    \/ s["USE_TINYMCE"] /\ s["USE_REDACTOR"]

\* admin.py:70
ConflictGuard(s) ==
    s["USE_CODEMIRROR"] /\ s["USE_TINYMCE"]

ResolveRichTextRedactorFirst(s, widget) ==
    IF s["USE_REDACTOR"] THEN "RedactorEditor"
    ELSE IF s["USE_TINYMCE"] THEN "AdminTinyMCE"
    ELSE widget

\* admin.py:75-80
ResolveRichText(s, widget) ==
    IF s["USE_TINYMCE"] THEN "AdminTinyMCE"
    ELSE IF s["USE_REDACTOR"] THEN "RedactorEditor"
    ELSE widget

readonly_fields_empty == {}

\* admin.py:99
readonly_fields == {"creation_date", "last_changed"}

\* admin.py:118
actions == {"invalidate_cache", "repopulate_cache", "check_syntax"}

Unchanged_run == UNCHANGED <<tableVars, cache, reqVars>>

\* admin.py:16-22
LoadModelAdmin ==
    /\ line = "L16"
    /\ TemplateModelAdmin' = ResolveModelAdmin(settings)
    /\ line' = "L58"
    /\ UNCHANGED <<settings, TemplateContentTextArea, content_help_text,
                   TemplateAdminForm, TemplateAdmin, registry>>
    /\ Unchanged_run

\* admin.py:58-61
LoadCodeMirror ==
    /\ line = "L58"
    /\ TemplateContentTextArea' = ResolveCodeMirror(settings)
    /\ line' = "L63"
    /\ UNCHANGED <<settings, TemplateModelAdmin, content_help_text,
                   TemplateAdminForm, TemplateAdmin, registry>>
    /\ Unchanged_run

\* admin.py:63-68
LoadHelpText ==
    /\ line = "L63"
    /\ content_help_text' = ResolveHelpText(settings)
    /\ line' = "L70"
    /\ UNCHANGED <<settings, TemplateModelAdmin, TemplateContentTextArea,
                   TemplateAdminForm, TemplateAdmin, registry>>
    /\ Unchanged_run

\* admin.py:70-73
LoadGuard ==
    /\ line = "L70"
    /\ line' = IF ConflictGuard(settings) THEN "ImproperlyConfigured" ELSE "L75"
    /\ UNCHANGED <<settings, TemplateModelAdmin, TemplateContentTextArea,
                   content_help_text, TemplateAdminForm, TemplateAdmin, registry>>
    /\ Unchanged_run

\* admin.py:75-80
LoadRichText ==
    /\ line = "L75"
    /\ TemplateContentTextArea' = ResolveRichText(settings, TemplateContentTextArea)
    /\ line' = "L83"
    /\ UNCHANGED <<settings, TemplateModelAdmin, content_help_text,
                   TemplateAdminForm, TemplateAdmin, registry>>
    /\ Unchanged_run

\* admin.py:83-94
LoadForm ==
    /\ line = "L83"
    /\ TemplateAdminForm' = [widget |-> TemplateContentTextArea,
                             help_text |-> content_help_text,
                             required |-> FALSE]
    /\ line' = "L97"
    /\ UNCHANGED <<settings, TemplateModelAdmin, TemplateContentTextArea,
                   content_help_text, TemplateAdmin, registry>>
    /\ Unchanged_run

\* admin.py:97-169
LoadAdmin ==
    /\ line = "L97"
    /\ TemplateAdmin' = [base |-> TemplateModelAdmin,
                         form |-> TemplateAdminForm,
                         readonly_fields |-> readonly_fields,
                         save_as |-> TRUE,
                         actions |-> actions]
    /\ line' = "L172"
    /\ UNCHANGED <<settings, TemplateModelAdmin, TemplateContentTextArea,
                   content_help_text, TemplateAdminForm, registry>>
    /\ Unchanged_run

\* admin.py:172
LoadRegister ==
    /\ line = "L172"
    /\ registry' = TemplateAdmin
    /\ line' = "loaded"
    /\ UNCHANGED <<settings, TemplateModelAdmin, TemplateContentTextArea,
                   content_help_text, TemplateAdminForm, TemplateAdmin>>
    /\ Unchanged_run

-----------------------------------------------------------------------------
(* Bounds of the model.                                                      *)

MaxPk == 2        \* rows ever inserted into the Template table
MaxClock == 2     \* calls of now() by Template.save()

PKs == 1..MaxPk
Names == {"home.html", "base.html"}
Contents == {"", "{% block %}"}
SyntaxErrors == {"unexpected tag", "bad block"}

-----------------------------------------------------------------------------
(* String helpers: ngettext, the % operator and str.join.                    *)

ngettextAlwaysPlural(singular, plural, number) == plural

\* admin.py:124 (django.utils.translation.ngettext, English plural rule)
ngettext(singular, plural, number) ==
    IF number = 1 THEN singular ELSE plural

RECURSIVE JoinNoSeparator(_, _)
JoinNoSeparator(sep, strs) ==
    IF Len(strs) = 0 THEN ""
    ELSE strs[1] \o JoinNoSeparator(sep, Tail(strs))

RECURSIVE Join(_, _)
\* admin.py:158  ', '.join(errors)
Join(sep, strs) ==
    IF Len(strs) = 0 THEN ""
    ELSE IF Len(strs) = 1 THEN strs[1]
    ELSE strs[1] \o sep \o Join(sep, Tail(strs))

RECURSIVE Format(_, _)
\* admin.py:128  message % {'count': count, 'names': names}
\* A message is the sequence of its literal pieces and conversion specifiers.
Format(message, d) ==
    IF Len(message) = 0 THEN ""
    ELSE LET piece == Head(message)
             text == IF piece = "%(count)d" THEN ToString(d.count)
                     ELSE IF piece = "%(names)s" THEN d.names
                     ELSE piece
         IN text \o Format(Tail(message), d)

\* admin.py:125-126
InvalidatedOne == <<"Cache of one template successfully invalidated.">>
InvalidatedMany == <<"Cache of ", "%(count)d", " templates successfully invalidated.">>
\* admin.py:137-138
RepopulatedOne == <<"Cache successfully repopulated with one template.">>
RepopulatedMany == <<"Cache successfully repopulated with ", "%(count)d", " templates.">>
\* admin.py:153-155
FailedOne == <<"Template syntax check FAILED for ", "%(names)s", ".">>
FailedMany == <<"Template syntax check FAILED for ", "%(count)d", " templates: ", "%(names)s", ".">>
\* admin.py:162-163
SyntaxOkOne == <<"Template syntax OK.">>
SyntaxOkMany == <<"Template syntax OK for ", "%(count)d", " templates.">>

ErrorEntryNameOnly(template, error) == template.name

\* admin.py:149  f'{template.name}: {error}'
ErrorEntry(template, error) == template.name \o ": " \o error

-----------------------------------------------------------------------------
(* The Template table and the queryset handed to a bulk action.              *)

RECURSIVE InPkOrder(_)
\* the rows of a set as the sequence the database returns them in
InPkOrder(rows) ==
    IF rows = {} THEN << >>
    ELSE LET first == CHOOSE r \in rows : \A q \in rows : r.pk <= q.pk
         IN <<first>> \o InPkOrder(rows \ {first})

\* the rows of the table that the queryset's filter selects now
Matching(qs) == {r \in db : r.pk \in qs.filter}

\* admin.py:121  iterating a queryset evaluates it once and keeps the rows
QuerySetIterate(qs) ==
    IF qs.evaluated THEN qs
    ELSE [qs EXCEPT !.evaluated = TRUE,
                    !.result_cache = InPkOrder(Matching(qs))]

QuerySetCountRequery(qs) == Cardinality(Matching(qs))

\* admin.py:123  queryset.count(): the kept rows when the queryset was
\* evaluated, otherwise a COUNT query
QuerySetCount(qs) ==
    IF qs.evaluated THEN Len(qs.result_cache)
    ELSE Cardinality(Matching(qs))

\* the cache holds a disposable copy of a template, keyed by its name
remove_cached_template(c, template) == c \ {template.name}

add_template_to_cache(c, template) == c \cup {template.name}

Unchanged_load == UNCHANGED loadVars

-----------------------------------------------------------------------------
(* Admin add / change / delete views: requests of other users.               *)

\* Template.save(): last_changed = now(); now() is later than every earlier call
Save(row, now) == [row EXCEPT !.last_changed = now]

NameFree(name, pk) == \A r \in db : r.name = name => r.pk = pk

\* the admin add view: TemplateAdminForm with name and content, then save()
AddTemplate ==
    \E name \in Names, content \in Contents :
        /\ line = "loaded"
        /\ nextpk <= MaxPk
        /\ clock < MaxClock
        /\ NameFree(name, 0)
        /\ clock' = clock + 1
        /\ db' = db \cup {Save([pk |-> nextpk, name |-> name, content |-> content,
                                creation_date |-> clock', last_changed |-> clock'],
                               clock')}
        /\ nextpk' = nextpk + 1
        /\ UNCHANGED <<cache, reqVars>>
        /\ Unchanged_load

\* admin.py:99  what the change form can post for a field of the row
Editable(field, old, values) ==
    IF field \in readonly_fields THEN {old[field]} ELSE values

\* the admin change view: the form sets every field that is not read-only
ChangeTemplate ==
    \E old \in db, name \in Names, content \in Contents :
      \E created \in Editable("creation_date", old, 0..MaxClock),
         changed \in Editable("last_changed", old, 0..MaxClock) :
        /\ line = "loaded"
        /\ clock < MaxClock
        /\ NameFree(name, old.pk)
        /\ clock' = clock + 1
        /\ LET posted == [pk |-> old.pk, name |-> name, content |-> content,
                          creation_date |-> created, last_changed |-> changed]
           IN db' = (db \ {old}) \cup {Save(posted, clock')}
        /\ UNCHANGED <<nextpk, cache, reqVars>>
        /\ Unchanged_load

\* admin.py:116  save_as: "Save as new" on the change view inserts a new row
SaveAsNew ==
    \E old \in db, name \in Names, content \in Contents :
        /\ line = "loaded"
        /\ nextpk <= MaxPk
        /\ clock < MaxClock
        /\ NameFree(name, 0)
        /\ clock' = clock + 1
        /\ db' = db \cup {Save([pk |-> nextpk, name |-> name, content |-> content,
                                creation_date |-> clock', last_changed |-> clock'],
                               clock')}
        /\ nextpk' = nextpk + 1
        /\ UNCHANGED <<cache, reqVars>>
        /\ Unchanged_load

\* the admin delete view
DeleteTemplate ==
    \E old \in db :
        /\ line = "loaded"
        /\ db' = db \ {old}
        /\ UNCHANGED <<nextpk, clock, cache, reqVars>>
        /\ Unchanged_load

-----------------------------------------------------------------------------
(* The bulk actions: one request at a time walks through an action while    *)
(* the add / change / delete requests above interleave with its steps.       *)

\* the admin dispatches a bulk action with the queryset of the selected rows
StartAction ==
    \E a \in actions, selected \in SUBSET PKs :
        /\ line = "loaded"
        /\ pc \in {"idle", "done", "raised"}
        /\ pc' = "for"
        /\ action' = a
        /\ queryset' = [filter |-> selected, evaluated |-> FALSE,
                        result_cache |-> << >>]
        /\ i' = 0
        /\ errors' = << >>
        /\ count' = 0
        /\ calls' = << >>
        /\ messages' = << >>
        /\ exc' = None
        /\ matchingAtCount' = NoCount
        /\ UNCHANGED <<tableVars, cache>>
        /\ Unchanged_load

\* admin.py:121, 133, 146  `for template in queryset`: the first next()
ForQueryset ==
    /\ pc = "for"
    /\ queryset' = QuerySetIterate(queryset)
    /\ pc' = "body"
    /\ UNCHANGED <<action, i, errors, count, calls, messages, exc, matchingAtCount>>
    /\ UNCHANGED <<tableVars, cache>>
    /\ Unchanged_load

invalidate_cache_body_swallow ==
    /\ pc = "body" /\ action = "invalidate_cache"
    /\ i < Len(queryset.result_cache)
    /\ LET template == queryset.result_cache[i + 1]
       IN \E result \in {None, "raise"} :
            /\ cache' = IF result = None
                        THEN remove_cached_template(cache, template) ELSE cache
            /\ calls' = Append(calls, [fn |-> "remove_cached_template",
                                       template |-> template, result |-> result])
    /\ i' = i + 1
    /\ UNCHANGED <<pc, exc, action, queryset, errors, count, messages, matchingAtCount>>
    /\ UNCHANGED tableVars
    /\ Unchanged_load

\* admin.py:122  remove_cached_template(template), which returns or raises
invalidate_cache_body ==
    /\ pc = "body" /\ action = "invalidate_cache"
    /\ i < Len(queryset.result_cache)
    /\ LET template == queryset.result_cache[i + 1]
       IN \/ /\ cache' = remove_cached_template(cache, template)
             /\ calls' = Append(calls, [fn |-> "remove_cached_template",
                                        template |-> template, result |-> None])
             /\ i' = i + 1
             /\ UNCHANGED <<pc, exc>>
          \/ /\ calls' = Append(calls, [fn |-> "remove_cached_template",
                                        template |-> template, result |-> "raise"])
             /\ exc' = "remove_cached_template"
             /\ pc' = "raised"
             /\ UNCHANGED <<cache, i>>
    /\ UNCHANGED <<action, queryset, errors, count, messages, matchingAtCount>>
    /\ UNCHANGED tableVars
    /\ Unchanged_load

\* admin.py:123-128
invalidate_cache_report ==
    /\ pc = "body" /\ action = "invalidate_cache"
    /\ i = Len(queryset.result_cache)
    /\ count' = QuerySetCount(queryset)
    /\ LET message == ngettext(InvalidatedOne, InvalidatedMany, count')
       IN messages' = Append(messages, Format(message, [count |-> count']))
    /\ matchingAtCount' = Cardinality(Matching(queryset))
    /\ pc' = "done"
    /\ UNCHANGED <<action, queryset, i, errors, calls, exc>>
    /\ UNCHANGED <<tableVars, cache>>
    /\ Unchanged_load

\* admin.py:134  add_template_to_cache(template), which returns or raises
repopulate_cache_body ==
    /\ pc = "body" /\ action = "repopulate_cache"
    /\ i < Len(queryset.result_cache)
    /\ LET template == queryset.result_cache[i + 1]
       IN \/ /\ cache' = add_template_to_cache(cache, template)
             /\ calls' = Append(calls, [fn |-> "add_template_to_cache",
                                        template |-> template, result |-> None])
             /\ i' = i + 1
             /\ UNCHANGED <<pc, exc>>
          \/ /\ calls' = Append(calls, [fn |-> "add_template_to_cache",
                                        template |-> template, result |-> "raise"])
             /\ exc' = "add_template_to_cache"
             /\ pc' = "raised"
             /\ UNCHANGED <<cache, i>>
    /\ UNCHANGED <<action, queryset, errors, count, messages, matchingAtCount>>
    /\ UNCHANGED tableVars
    /\ Unchanged_load

\* admin.py:135-140
repopulate_cache_report ==
    /\ pc = "body" /\ action = "repopulate_cache"
    /\ i = Len(queryset.result_cache)
    /\ count' = QuerySetCount(queryset)
    /\ LET message == ngettext(RepopulatedOne, RepopulatedMany, count')
       IN messages' = Append(messages, Format(message, [count |-> count']))
    /\ matchingAtCount' = Cardinality(Matching(queryset))
    /\ pc' = "done"
    /\ UNCHANGED <<action, queryset, i, errors, calls, exc>>
    /\ UNCHANGED <<tableVars, cache>>
    /\ Unchanged_load

check_syntax_body_raises ==
    /\ pc = "body" /\ action = "check_syntax"
    /\ i < Len(queryset.result_cache)
    /\ LET template == queryset.result_cache[i + 1]
       IN \E result \in {<<TRUE, None>>} \cup {<<FALSE, e>> : e \in SyntaxErrors} :
            /\ calls' = Append(calls, [fn |-> "check_template_syntax",
                                       template |-> template, result |-> result])
            /\ IF result[1]
               THEN i' = i + 1 /\ UNCHANGED <<pc, exc>>
               ELSE pc' = "raised" /\ exc' = result[2] /\ UNCHANGED i
    /\ UNCHANGED <<errors, action, queryset, count, messages, matchingAtCount>>
    /\ UNCHANGED <<tableVars, cache>>
    /\ Unchanged_load

\* admin.py:147-149  check_template_syntax(template) returns (valid, error)
check_syntax_body ==
    /\ pc = "body" /\ action = "check_syntax"
    /\ i < Len(queryset.result_cache)
    /\ LET template == queryset.result_cache[i + 1]
       IN \E result \in {<<TRUE, None>>} \cup {<<FALSE, e>> : e \in SyntaxErrors} :
            /\ calls' = Append(calls, [fn |-> "check_template_syntax",
                                       template |-> template, result |-> result])
            /\ errors' = IF ~result[1]
                         THEN Append(errors, ErrorEntry(template, result[2]))
                         ELSE errors
    /\ i' = i + 1
    /\ UNCHANGED <<pc, action, queryset, count, messages, exc, matchingAtCount>>
    /\ UNCHANGED <<tableVars, cache>>
    /\ Unchanged_load

\* admin.py:150-164
check_syntax_report ==
    /\ pc = "body" /\ action = "check_syntax"
    /\ i = Len(queryset.result_cache)
    /\ IF errors # << >>
       THEN /\ count' = Len(errors)
            /\ LET message == ngettext(FailedOne, FailedMany, count')
               IN messages' = Append(messages,
                       Format(message, [count |-> count',
                                        names |-> Join(", ", errors)]))
       ELSE /\ count' = QuerySetCount(queryset)
            /\ LET message == ngettext(SyntaxOkOne, SyntaxOkMany, count')
               IN messages' = Append(messages, Format(message, [count |-> count']))
    /\ matchingAtCount' = Cardinality(Matching(queryset))
    /\ pc' = "done"
    /\ UNCHANGED <<action, queryset, i, errors, calls, exc>>
    /\ UNCHANGED <<tableVars, cache>>
    /\ Unchanged_load

-----------------------------------------------------------------------------
(* Specifications.                                                           *)

RunIdle ==
    /\ db = {} /\ nextpk = 1 /\ clock = 0 /\ cache = {}
    /\ pc = "idle" /\ action = None /\ i = 0
    /\ queryset = [filter |-> {}, evaluated |-> FALSE, result_cache |-> << >>]
    /\ errors = << >> /\ count = 0 /\ calls = << >> /\ messages = << >>
    /\ exc = None /\ matchingAtCount = NoCount

LoadInit ==
    /\ settings \in AllSettings
    /\ line = "L16"
    /\ TemplateModelAdmin = None
    /\ TemplateContentTextArea = None
    /\ content_help_text = None
    /\ TemplateAdminForm = NoClass
    /\ TemplateAdmin = NoClass
    /\ registry = NoClass
    /\ RunIdle

LoadNext ==
    \/ LoadModelAdmin \/ LoadCodeMirror \/ LoadHelpText \/ LoadGuard
    \/ LoadRichText \/ LoadForm \/ LoadAdmin \/ LoadRegister

LoadSpec == LoadInit /\ [][LoadNext]_vars

\* the module was imported with every option off
Init ==
    /\ settings = [o \in Options |-> FALSE]
    /\ line = "loaded"
    /\ TemplateModelAdmin = ResolveModelAdmin(settings)
    /\ TemplateContentTextArea =
           ResolveRichText(settings, ResolveCodeMirror(settings))
    /\ content_help_text = ResolveHelpText(settings)
    /\ TemplateAdminForm = [widget |-> TemplateContentTextArea,
                            help_text |-> content_help_text,
                            required |-> FALSE]
    /\ TemplateAdmin = [base |-> TemplateModelAdmin,
                        form |-> TemplateAdminForm,
                        readonly_fields |-> readonly_fields,
                        save_as |-> TRUE,
                        actions |-> actions]
    /\ registry = TemplateAdmin
    /\ RunIdle

Next ==
    \/ AddTemplate \/ ChangeTemplate \/ SaveAsNew \/ DeleteTemplate
    \/ StartAction \/ ForQueryset
    \/ invalidate_cache_body \/ invalidate_cache_report
    \/ repopulate_cache_body \/ repopulate_cache_report
    \/ check_syntax_body \/ check_syntax_report

Spec == Init /\ [][Next]_vars

\* the bulk action runs to its end once the request is dispatched: the
\* request is served synchronously, statement after statement
FairSpec ==
    /\ Spec
    /\ WF_vars(ForQueryset)
    /\ WF_vars(invalidate_cache_body) /\ WF_vars(invalidate_cache_report)
    /\ WF_vars(repopulate_cache_body) /\ WF_vars(repopulate_cache_report)
    /\ WF_vars(check_syntax_body) /\ WF_vars(check_syntax_report)

-----------------------------------------------------------------------------
(* Properties.                                                               *)

\* the selection: the rows the action iterated over
Selected == queryset.result_cache
Finished(a) == pc = "done" /\ action = a

\* calls[1..n] are calls of fn on Selected[1..n], in that order
CalledInOrder(fn, n) ==
    /\ Len(calls) = n
    /\ n <= Len(Selected)
    /\ \A k \in 1..n : calls[k].fn = fn /\ calls[k].template = Selected[k]

RECURSIVE FailureNames(_)
\* "<name>: <error>" of the failed checks of a call log, joined by ", "
FailureNames(log) ==
    IF log = << >> THEN ""
    ELSE LET c == Head(log)
             rest == FailureNames(Tail(log))
         IN IF c.result[1] THEN rest
            ELSE c.template.name \o ": " \o c.result[2]
                 \o (IF rest = "" THEN "" ELSE ", " \o rest)

Failures == {k \in 1..Len(calls) : ~calls[k].result[1]}

\* C1: a finished invalidate_cache has called remove_cached_template exactly
\* once on each of the N selected templates and on nothing else, a finished
\* repopulate_cache has done the same with add_template_to_cache, and the one
\* message reported carries N: the singular wording for N = 1, the plural
\* wording with the number N otherwise.
C1_OnceEachAndCountN ==
    LET N == Len(Selected)
    IN /\ Finished("invalidate_cache") =>
            /\ CalledInOrder("remove_cached_template", N)
            /\ messages =
                 <<IF N = 1 THEN "Cache of one template successfully invalidated."
                   ELSE "Cache of " \o ToString(N)
                        \o " templates successfully invalidated.">>
       /\ Finished("repopulate_cache") =>
            /\ CalledInOrder("add_template_to_cache", N)
            /\ messages =
                 <<IF N = 1 THEN "Cache successfully repopulated with one template."
                   ELSE "Cache successfully repopulated with " \o ToString(N)
                        \o " templates.">>

C1_Witness ==
    /\ Finished("invalidate_cache")
    /\ Len(Selected) = 2
    /\ messages = <<"Cache of 2 templates successfully invalidated.">>

\* C2: a finished check_syntax over N templates of which M failed reports,
\* when M > 0, the failure message with the count M naming exactly the M
\* failing templates as "<name>: <error>" in selection order joined by ", ",
\* and, when M = 0, the all-clear message for N with no template name.
C2_FailureMessageNamesTheFailures ==
    Finished("check_syntax") =>
        LET N == Len(Selected)
            M == Cardinality(Failures)
        IN /\ M > 0 =>
                /\ count = M
                /\ messages =
                     <<IF M = 1
                       THEN "Template syntax check FAILED for "
                            \o FailureNames(calls) \o "."
                       ELSE "Template syntax check FAILED for " \o ToString(M)
                            \o " templates: " \o FailureNames(calls) \o ".">>
           /\ M = 0 =>
                /\ count = N
                /\ messages =
                     <<IF N = 1 THEN "Template syntax OK."
                       ELSE "Template syntax OK for " \o ToString(N)
                            \o " templates.">>

C2_Witness ==
    /\ Finished("check_syntax")
    /\ Len(Selected) = 2
    /\ Cardinality(Failures) = 2
    /\ calls[1].result[2] # calls[2].result[2]

\* the example of C3: home.html fails with "unexpected tag", base.html passes
C3_Example ==
    /\ Finished("check_syntax")
    /\ Len(Selected) = 2
    /\ Selected[1].name = "home.html" /\ Selected[2].name = "base.html"
    /\ Len(calls) = 2
    /\ calls[1].result = <<FALSE, "unexpected tag">>
    /\ calls[2].result = <<TRUE, None>>

\* C3 as stated: in the example the failure message states the count 1.
C3_AsStated ==
    C3_Example =>
        messages = <<"Template syntax check FAILED for 1 template: home.html: unexpected tag.">>

\* C3: in the example check_syntax reports the singular failure message,
\* which names the failing template and its error and carries no number.
C3_SingularFailureMessage ==
    C3_Example =>
        messages = <<"Template syntax check FAILED for home.html: unexpected tag.">>

C3_Witness == C3_Example /\ count = 1

\* C4: the import fails with ImproperlyConfigured exactly when USE_CODEMIRROR
\* and USE_TINYMCE are both set, whatever the other four options are, and a
\* failed import has defined no form, no admin class and no registration.
C4_FailsIffCodeMirrorAndTinyMCE ==
    LET both == settings["USE_CODEMIRROR"] /\ settings["USE_TINYMCE"]
    IN /\ line = "ImproperlyConfigured" =>
            /\ both
            /\ TemplateAdminForm = NoClass
            /\ TemplateAdmin = NoClass
            /\ registry = NoClass
       /\ line \in {"L75", "L83", "L97", "L172", "loaded"} => ~both

C4_Witness ==
    /\ line = "ImproperlyConfigured"
    /\ settings["USE_REDACTOR"]
    /\ registry = NoClass

\* C5: once the widget is resolved, Redactor wins over CodeMirror, TinyMCE is
\* chosen whenever USE_TINYMCE is set (also with USE_REDACTOR), CodeMirror
\* alone gives CodeMirrorTextArea, no option gives Textarea, and the form
\* uses that one widget.
C5_WidgetPrecedence ==
    line \in {"L83", "L97", "L172", "loaded"} =>
        LET w == TemplateContentTextArea
            cm == settings["USE_CODEMIRROR"]
            tiny == settings["USE_TINYMCE"]
            red == settings["USE_REDACTOR"]
        IN /\ w \in {"Textarea", "CodeMirrorTextArea", "AdminTinyMCE", "RedactorEditor"}
           /\ red /\ cm => w = "RedactorEditor"
           /\ tiny => w = "AdminTinyMCE"
           /\ cm /\ ~red /\ ~tiny => w = "CodeMirrorTextArea"
           /\ ~cm /\ ~red /\ ~tiny => w = "Textarea"
           /\ TemplateAdminForm # NoClass => TemplateAdminForm.widget = w

C5_Witness ==
    /\ line = "loaded"
    /\ settings["USE_REDACTOR"] /\ settings["USE_CODEMIRROR"]
    /\ TemplateAdminForm.widget = "RedactorEditor"

\* C6: the base class of TemplateAdmin is CompareVersionAdmin whenever
\* USE_REVERSION_COMPARE is set, VersionAdmin when only USE_REVERSION is set
\* and ModelAdmin when neither is, whatever the editor options are.
C6_BaseAdminPrecedence ==
    TemplateAdmin # NoClass =>
        /\ settings["USE_REVERSION_COMPARE"] =>
               TemplateAdmin.base = "CompareVersionAdmin"
        /\ settings["USE_REVERSION"] /\ ~settings["USE_REVERSION_COMPARE"] =>
               TemplateAdmin.base = "VersionAdmin"
        /\ ~settings["USE_REVERSION"] /\ ~settings["USE_REVERSION_COMPARE"] =>
               TemplateAdmin.base = "ModelAdmin"

C6_Witness ==
    /\ line = "loaded"
    /\ settings["USE_REVERSION"] /\ settings["USE_REVERSION_COMPARE"]
    /\ settings["USE_TINYMCE"]
    /\ registry.base = "CompareVersionAdmin"

\* one step: a row that stays in the table keeps its creation_date, a row
\* that is edited gets a strictly later last_changed, and a step of a bulk
\* action changes no row
C7_TimestampsStep ==
    /\ \A old \in db : \A new \in db' :
           new.pk = old.pk =>
               /\ new.creation_date = old.creation_date
               /\ new # old => new.last_changed > old.last_changed
    /\ reqVars' # reqVars => db' = db

\* C7: every step of every behaviour keeps creation_date, moves last_changed
\* of an edited row strictly forward, and a bulk action writes no row.
C7_Timestamps == [][C7_TimestampsStep]_vars

C7_Witness ==
    /\ \E r \in db : r.last_changed > r.creation_date /\ r.content # ""
    /\ pc = "done"

\* C8: when remove_cached_template or add_template_to_cache raises on the
\* k-th selected template the action is left by that exception: no message is
\* reported, the first k-1 templates keep their cache effect, and the k-th
\* call is the last one.
C8_CacheExceptionPropagates ==
    action \in {"invalidate_cache", "repopulate_cache"} =>
        /\ (\E k \in 1..Len(calls) : calls[k].result = "raise") => pc = "raised"
        /\ pc = "raised" =>
             LET k == Len(calls)
             IN /\ exc = calls[k].fn
                /\ messages = << >>
                /\ CalledInOrder(calls[k].fn, k)
                /\ calls[k].result = "raise"
                /\ \A j \in 1..(k - 1) :
                     /\ calls[j].result = None
                     /\ action = "invalidate_cache" =>
                            calls[j].template.name \notin cache
                     /\ action = "repopulate_cache" =>
                            calls[j].template.name \in cache

C8_Witness ==
    /\ pc = "raised"
    /\ action = "repopulate_cache"
    /\ Len(calls) = 2
    /\ Len(Selected) = 2
    /\ calls[1].template.name \in cache

\* check_syntax has called check_template_syntax on the first i selected
\* templates in order, has raised nothing, and has reported one message
\* exactly when it is done
C9_State ==
    action = "check_syntax" =>
        /\ pc # "raised" /\ exc = None
        /\ pc = "for" => calls = << >>
        /\ pc \in {"body", "done"} => CalledInOrder("check_template_syntax", i)
        /\ pc = "done" => Len(calls) = Len(Selected) /\ Len(messages) = 1
        /\ pc # "done" => messages = << >>

\* a step of check_syntax writes neither the table nor the cache
C9_Step ==
    (action = "check_syntax" /\ action' = "check_syntax" /\ reqVars' # reqVars
     /\ pc # "done") => db' = db /\ cache' = cache

\* C9: check_syntax never raises: it calls check_template_syntax once on every
\* selected template in selection order, also after a failing one, reports
\* exactly one message when it ends, changes neither the table nor the cache,
\* and ends.
C9_CheckSyntaxNeverRaises ==
    /\ []C9_State
    /\ [][C9_Step]_vars
    /\ (action = "check_syntax" /\ pc = "for") ~> (action = "check_syntax" /\ pc = "done")

C9_Witness ==
    /\ Finished("check_syntax")
    /\ Len(calls) = 2
    /\ ~calls[1].result[1] /\ calls[2].result[1]
    /\ Len(messages) = 1

\* C10: the count reported by invalidate_cache, repopulate_cache and the
\* all-clear branch of check_syntax is the number of templates iterated, also
\* when the table changed between the iteration and the count.
C10_CountIsTheIteratedCount ==
    (pc = "done" /\ (action = "check_syntax" => errors = << >>)) =>
        /\ count = Len(Selected)
        /\ count = Len(calls)

C10_Witness ==
    /\ pc = "done"
    /\ action = "invalidate_cache"
    /\ matchingAtCount # Len(Selected)
    /\ count = Len(calls)

====
